---- MODULE Spec2Model ----
(***************************************************************************)
(* Model of scripts/preprocess_scannet.py: ScannetProcess.convert,         *)
(* process_scene, export, read_aggregation and read_segmentation.          *)
(*                                                                         *)
(* numpy arrays are sequences (numpy index v is position v + 1), Python    *)
(* dicts are records [keys, map] that keep insertion order, and Python     *)
(* lists that are shared by reference live in a heap of lists addressed    *)
(* by reference number.  Coordinates are even integers, so that the        *)
(* halving in the bounding-box centre is exact.                            *)
(***************************************************************************)
EXTENDS Integers, Sequences, FiniteSets, TLC

VARIABLES scans, cur, pc, ex, loc, err, disk, runs, errors, errfile, calls

vars == <<scans, cur, pc, ex, loc, err, disk, runs, errors, errfile, calls>>

(***************************************************************************)
(* Bounds of the model                                                     *)
(***************************************************************************)
MaxVerts == 2
MaxSceneVerts == 3
MaxGroups == 2
MaxRuns == 2
MaxScans == 2
\* ScannetProcess(dataset_path, out_path, max_num_point)
max_num_point == 2

(***************************************************************************)
(* Input domains                                                           *)
(***************************************************************************)
SegIds == {0, 1}
ObjectIds == {0, 1, 2}
Labels == {"chair", "wall"}
SegLists == {<<>>, <<0>>, <<1>>, <<0, 1>>}
Layouts == {1, 2}
MeshOffsets == {-1, 0, 1}

\* scannetv2-labels.combined.tsv, raw_category -> nyu40id
label_map == ("chair" :> 5) @@ ("wall" :> 1)

DONOTCARE_IDS == {}
OBJ_CLASS_IDS == {3, 4, 5, 6, 7, 8, 9, 10, 11, 12, 14, 16, 24, 28, 33, 34, 36, 39}

Identity16 == <<1, 0, 0, 0,   0, 1, 0, 0,   0, 0, 1, 0,   0, 0, 0, 1>>
\* a quarter turn about z followed by a translation
RotShift16 == <<0, -1, 0, 2,   1, 0, 0, -4,   0, 0, 1, 6,   0, 0, 0, 1>>

OtherLine == [key |-> "numDepthFrames", vals |-> <<>>]
AlignLine(m) == [key |-> "axisAlignment", vals |-> m]
MetaFiles == { <<OtherLine>>,
               <<AlignLine(Identity16), OtherLine>>,
               <<OtherLine, AlignLine(RotShift16)>> }

\* vertex i of the mesh file (0-based): x, y, z, r, g, b
MeshRow(layout, i) ==
    IF layout = 1
    THEN <<2 * i, 2 * ((i * i) % 3), 6 - 2 * ((2 * i) % 5), 10 * i, 255 - i, 7>>
    ELSE <<4 - 2 * ((3 * i) % 4), 2 * i, 2 * ((i + 1) % 2), 3, 10 * i, 200 - i>>

SeqsUpTo(S, n) == UNION {[1..k -> S] : k \in 0..n}

Groups == [objectId : ObjectIds, label : Labels, segments : SegLists]

(***************************************************************************)
(* Python dict with insertion order                                        *)
(***************************************************************************)
EmptyDict == [keys |-> <<>>, map |-> <<>>]
DictHas(d, k) == k \in DOMAIN d.map
DictSet(d, k, v) ==
    [keys |-> IF DictHas(d, k) THEN d.keys ELSE Append(d.keys, k),
     map  |-> (k :> v) @@ d.map]

(***************************************************************************)
(* read_mesh_vertices_rgb                                                  *)
(***************************************************************************)
read_mesh_vertices_rgb(scene) ==
    [i \in 1..scene.nmesh |-> MeshRow(scene.layout, i - 1)]

(***************************************************************************)
(* read_aggregation: object_id_to_segs[object_id] = segs stores the list   *)
(* object itself, label_to_segs[label] = segs stores the same object, and  *)
(* label_to_segs[label].extend(segs) mutates whatever list is stored.      *)
(* heap[r] is the current value of the list loaded for group r.            *)
(***************************************************************************)
RECURSIVE ReadAggFrom(_, _, _)
ReadAggFrom(segGroups, i, st) ==
    IF i > Len(segGroups) THEN st
    ELSE LET object_id == segGroups[i].objectId + 1
             label == segGroups[i].label
             o2s == DictSet(st.object_id_to_segs, object_id, i)
         IN  IF DictHas(st.label_to_segs, label)
             THEN ReadAggFrom(segGroups, i + 1,
                     [object_id_to_segs |-> o2s,
                      label_to_segs |-> st.label_to_segs,
                      heap |-> [st.heap EXCEPT ![st.label_to_segs.map[label]] =
                                    @ \o st.heap[i]]])
             ELSE ReadAggFrom(segGroups, i + 1,
                     [object_id_to_segs |-> o2s,
                      label_to_segs |-> DictSet(st.label_to_segs, label, i),
                      heap |-> st.heap])

read_aggregation(segGroups) ==
    ReadAggFrom(segGroups, 1,
        [object_id_to_segs |-> EmptyDict,
         label_to_segs |-> EmptyDict,
         heap |-> [r \in 1..Len(segGroups) |-> segGroups[r].segments]])

\* the segment list an object id maps to, as the caller reads it
ObjSegs(agg, object_id) == agg.heap[agg.object_id_to_segs.map[object_id]]
LabelSegs(agg, label) == agg.heap[agg.label_to_segs.map[label]]

(***************************************************************************)
(* read_segmentation                                                       *)
(***************************************************************************)
read_segmentation(segIndices) ==
    [seg_to_verts |->
        [s \in {segIndices[i] : i \in 1..Len(segIndices)} |->
            SelectSeq([i \in 1..Len(segIndices) |-> i - 1],
                      LAMBDA v : segIndices[v + 1] = s)],
     num_verts |-> Len(segIndices)]

(***************************************************************************)
(* numpy helpers                                                           *)
(***************************************************************************)
Zeros(n) == [i \in 1..n |-> 0]
\* (mutant) only the first vertex of the segment is written
AssignAtFirst(arr, verts, val) ==
    [k \in 1..Len(arr) |-> IF verts[1] = k - 1 THEN val ELSE arr[k]]
\* arr[verts] = val, verts a list of 0-based indices
AssignAt(arr, verts, val) ==
    [k \in 1..Len(arr) |->
        IF \E j \in 1..Len(verts) : verts[j] = k - 1 THEN val ELSE arr[k]]
\* arr[mask], mask a boolean array of the same length
MaskSelect(arr, mask) ==
    LET idx == SelectSeq([i \in 1..Len(arr) |-> i], LAMBDA i : mask[i])
    IN  [k \in 1..Len(idx) |-> arr[idx[k]]]
\* arr[choices], choices a list of 0-based indices
Take(arr, choices) == [k \in 1..Len(choices) |-> arr[choices[k] + 1]]
Range(s) == {s[i] : i \in 1..Len(s)}
Min(S) == CHOOSE x \in S : \A y \in S : x <= y
Max(S) == CHOOSE x \in S : \A y \in S : x >= y

(***************************************************************************)
(* export(), lines 153-175: load the mesh, align it, load the indices      *)
(***************************************************************************)
NoErr == "none"

ExBlank ==
    [err |-> NoErr, mesh_vertices |-> <<>>, agg |-> read_aggregation(<<>>),
     seg_to_verts |-> <<>>, num_verts |-> 0, label_ids |-> <<>>,
     instance_ids |-> <<>>, object_id_to_label_id |-> <<>>,
     instance_bboxes |-> <<>>]

AlignLines(meta) == SelectSeq(meta, LAMBDA line : line.key = "axisAlignment")

\* np.array(axis_align_matrix).reshape((4, 4)), row r column c (1-based)
Reshape44(vals, r, c) == vals[4 * (r - 1) + c]

\* pts = np.dot([x y z 1], matrix.transpose()); columns 0:3 overwritten
AlignRow(vals, row) ==
    [c \in 1..6 |->
        IF c <= 3
        THEN Reshape44(vals, c, 1) * row[1] + Reshape44(vals, c, 2) * row[2]
             + Reshape44(vals, c, 3) * row[3] + Reshape44(vals, c, 4)
        ELSE row[c]]

\* (mutant) a metadata file without axisAlignment line leaves the mesh unaligned
ExportLoadNoAlign(scene) ==
    LET mesh == read_mesh_vertices_rgb(scene)
        al == AlignLines(scene.meta)
        sg == read_segmentation(scene.segIndices)
    IN  [ExBlank EXCEPT
           !.mesh_vertices = [i \in 1..Len(mesh) |->
               IF al = <<>> THEN mesh[i] ELSE AlignRow(al[1].vals, mesh[i])],
           !.agg = read_aggregation(scene.segGroups),
           !.seg_to_verts = sg.seg_to_verts,
           !.num_verts = sg.num_verts]

ExportLoad(scene) ==
    LET mesh == read_mesh_vertices_rgb(scene)
        al == AlignLines(scene.meta)
    IN  IF al = <<>>
        THEN [ExBlank EXCEPT !.err = "UnboundLocalError", !.mesh_vertices = mesh]
        ELSE LET sg == read_segmentation(scene.segIndices)
             IN  [ExBlank EXCEPT
                    !.mesh_vertices = [i \in 1..Len(mesh) |-> AlignRow(al[1].vals, mesh[i])],
                    !.agg = read_aggregation(scene.segGroups),
                    !.seg_to_verts = sg.seg_to_verts,
                    !.num_verts = sg.num_verts]

(***************************************************************************)
(* export(), lines 177-193: project labels and instance ids on vertices    *)
(***************************************************************************)
RECURSIVE LabelSegLoop(_, _, _, _, _)
LabelSegLoop(segs, j, label_id, seg_to_verts, st) ==
    IF j > Len(segs) THEN st
    ELSE IF segs[j] \notin DOMAIN seg_to_verts
         THEN [st EXCEPT !.err = "KeyError"]
         ELSE LabelSegLoop(segs, j + 1, label_id, seg_to_verts,
                  [st EXCEPT !.arr = AssignAt(@, seg_to_verts[segs[j]], label_id)])

RECURSIVE LabelLoop(_, _, _, _)
LabelLoop(agg, seg_to_verts, li, st) ==
    IF li > Len(agg.label_to_segs.keys) \/ st.err # NoErr THEN st
    ELSE LET label == agg.label_to_segs.keys[li]
         IN  IF label \notin DOMAIN label_map
             THEN [st EXCEPT !.err = "KeyError"]
             ELSE LabelLoop(agg, seg_to_verts, li + 1,
                      LabelSegLoop(LabelSegs(agg, label), 1, label_map[label],
                                   seg_to_verts, st))

RECURSIVE InstSegLoop(_, _, _, _, _, _)
InstSegLoop(segs, j, object_id, seg_to_verts, label_ids, st) ==
    IF j > Len(segs) THEN st
    ELSE IF segs[j] \notin DOMAIN seg_to_verts
         THEN [st EXCEPT !.err = "KeyError"]
         ELSE LET verts == seg_to_verts[segs[j]]
              IN  InstSegLoop(segs, j + 1, object_id, seg_to_verts, label_ids,
                      [st EXCEPT
                         !.arr = AssignAt(@, verts, object_id),
                         !.o2l = IF object_id \in DOMAIN @ THEN @
                                 ELSE (object_id :> label_ids[verts[1] + 1]) @@ @])

RECURSIVE InstLoop(_, _, _, _, _)
InstLoop(agg, seg_to_verts, label_ids, oi, st) ==
    IF oi > Len(agg.object_id_to_segs.keys) \/ st.err # NoErr THEN st
    ELSE LET object_id == agg.object_id_to_segs.keys[oi]
         IN  InstLoop(agg, seg_to_verts, label_ids, oi + 1,
                 InstSegLoop(ObjSegs(agg, object_id), 1, object_id,
                             seg_to_verts, label_ids, st))

ExportLabels(e) ==
    IF e.err # NoErr THEN e
    ELSE LET lab == LabelLoop(e.agg, e.seg_to_verts, 1,
                              [arr |-> Zeros(e.num_verts), err |-> NoErr])
         IN  IF lab.err # NoErr
             THEN [e EXCEPT !.err = lab.err, !.label_ids = lab.arr]
             ELSE LET ins == InstLoop(e.agg, e.seg_to_verts, lab.arr, 1,
                                [arr |-> Zeros(e.num_verts), o2l |-> <<>>,
                                 err |-> NoErr])
                  IN  [e EXCEPT !.err = ins.err,
                                !.label_ids = lab.arr,
                                !.instance_ids = ins.arr,
                                !.object_id_to_label_id = ins.o2l]

(***************************************************************************)
(* export(), lines 195-214: one bounding box per object id                 *)
(***************************************************************************)
ZeroBox == <<0, 0, 0, 0, 0, 0, 0>>

\* the vertices (1-based positions) selected by instance_ids == obj_id
Members(instance_ids, obj_id) ==
    {k \in 1..Len(instance_ids) : instance_ids[k] = obj_id}

\* (mutant) the maximum is taken with np.min
BBoxLowOnly(mesh_vertices, members, label_id) ==
    LET lo(a) == Min({mesh_vertices[k][a] : k \in members})
    IN  <<lo(1), lo(2), lo(3), 0, 0, 0, label_id>>

BBox(mesh_vertices, members, label_id) ==
    LET lo(a) == Min({mesh_vertices[k][a] : k \in members})
        hi(a) == Max({mesh_vertices[k][a] : k \in members})
    IN  <<(lo(1) + hi(1)) \div 2, (lo(2) + hi(2)) \div 2, (lo(3) + hi(3)) \div 2,
          hi(1) - lo(1), hi(2) - lo(2), hi(3) - lo(3), label_id>>

\* (mutant) the boxes are kept without a bound on the row index
RowInRangeAny(i, n) == TRUE
\* instance_bboxes[i, :] = bbox on an array of n rows
RowInRange(i, n) == -n <= i /\ i < n
RowPos(i, n) == IF i >= 0 THEN i + 1 ELSE n + i + 1

RECURSIVE BoxLoop(_, _, _)
BoxLoop(e, oi, st) ==
    IF oi > Len(e.agg.object_id_to_segs.keys) \/ st.err # NoErr THEN st
    ELSE LET obj_id == e.agg.object_id_to_segs.keys[oi]
             n == Len(st.boxes)
         IN  IF obj_id \notin DOMAIN e.object_id_to_label_id
             THEN [st EXCEPT !.err = "KeyError"]
             ELSE IF Len(e.mesh_vertices) # Len(e.instance_ids)
             THEN [st EXCEPT !.err = "IndexError"]
             ELSE LET members == Members(e.instance_ids, obj_id)
                  IN  IF members = {} THEN BoxLoop(e, oi + 1, st)
                      ELSE IF ~RowInRange(obj_id - 1, n)
                      THEN [st EXCEPT !.err = "IndexError"]
                      ELSE BoxLoop(e, oi + 1,
                              [st EXCEPT !.boxes[RowPos(obj_id - 1, n)] =
                                  BBox(e.mesh_vertices, members,
                                       e.object_id_to_label_id[obj_id])])

ExportBoxes(e) ==
    IF e.err # NoErr THEN e
    ELSE LET num_instances == Len(e.agg.object_id_to_segs.keys)
             bx == BoxLoop(e, 1, [boxes |-> [i \in 1..num_instances |-> ZeroBox],
                                  err |-> NoErr])
         IN  [e EXCEPT !.err = bx.err, !.instance_bboxes = bx.boxes]

export(scene) == ExportBoxes(ExportLabels(ExportLoad(scene)))

(***************************************************************************)
(* State                                                                   *)
(*   scans    the dataset: the input files of each scan, in list order     *)
(*   cur      index of the scan process_scene works on                     *)
(*   pc       control point                                                *)
(*   ex       export()'s locals and return values                          *)
(*   loc      process_scene()'s locals                                     *)
(*   err      the exception that ended export/process_scene/convert        *)
(*   disk     per scan, the four output files in out_path                  *)
(*   runs     how many times the script has been started                   *)
(*   errors   convert()'s list of failed scans                             *)
(*   errfile  out_path/errors.txt                                          *)
(*   calls    the scans process_scene has been called on in this run       *)
(***************************************************************************)
NoFile == [exists |-> FALSE, data |-> <<>>]
NoFiles == [vert |-> NoFile, sem_label |-> NoFile, ins_label |-> NoFile,
            bbox |-> NoFile]
File(data) == [exists |-> TRUE, data |-> data]

LocBlank == [mesh_vertices |-> <<>>, semantic_labels |-> <<>>,
             instance_labels |-> <<>>, instance_bboxes |-> <<>>,
             N |-> 0, choices |-> <<>>, cached |-> FALSE]

Scene(si, gl, d, l, m) ==
    [nmesh |-> Len(si) + d, layout |-> l, meta |-> m, segIndices |-> si,
     segGroups |-> gl]

\* scans is a list of scenes drawn from the given input sets
ScansFrom(n, segLists, groupLists, offsets, layouts, metas) ==
    \E f \in [1..n -> segLists \X groupLists \X offsets \X layouts \X metas] :
        /\ \A i \in 1..n : Len(f[i][1]) + f[i][3] >= 0
        /\ scans = [i \in 1..n |-> Scene(f[i][1], f[i][2], f[i][3], f[i][4], f[i][5])]

(***************************************************************************)
(* process_scene                                                           *)
(***************************************************************************)
AllCached(files) ==
    /\ files.vert.exists /\ files.sem_label.exists
    /\ files.ins_label.exists /\ files.bbox.exists

\* lines 109-113: the four files are there already
PsSkip ==
    /\ pc = "ps_begin"
    /\ AllCached(disk[cur])
    /\ pc' = "ps_returned"
    /\ loc' = [LocBlank EXCEPT !.cached = TRUE]
    /\ UNCHANGED <<scans, cur, ex, err, disk, runs, errors, errfile, calls>>

PsEnter ==
    /\ pc = "ps_begin"
    /\ ~AllCached(disk[cur])
    /\ pc' = "ps_export"
    /\ UNCHANGED <<scans, cur, ex, loc, err, disk, runs, errors, errfile, calls>>

\* lines 124-126
PsExport ==
    /\ pc = "ps_export"
    /\ ex' = export(scans[cur])
    /\ IF ex'.err # NoErr
       THEN pc' = "ps_raised" /\ err' = ex'.err /\ loc' = loc
       ELSE /\ pc' = "ps_filter"
            /\ err' = err
            /\ loc' = [loc EXCEPT !.mesh_vertices = ex'.mesh_vertices,
                                  !.semantic_labels = ex'.label_ids,
                                  !.instance_labels = ex'.instance_ids,
                                  !.instance_bboxes = ex'.instance_bboxes]
    /\ UNCHANGED <<scans, cur, disk, runs, errors, errfile, calls>>

\* mask = np.logical_not(np.in1d(semantic_labels, self.DONOTCARE_IDS))
CareMask(semantic_labels) ==
    [i \in 1..Len(semantic_labels) |-> semantic_labels[i] \notin DONOTCARE_IDS]
\* bbox_mask = np.in1d(instance_bboxes[:, -1], self.OBJ_CLASS_IDS)
BoxMask(instance_bboxes) ==
    [i \in 1..Len(instance_bboxes) |-> instance_bboxes[i][7] \in OBJ_CLASS_IDS]

\* lines 128-138
PsFilter ==
    /\ pc = "ps_filter"
    /\ LET mask == CareMask(loc.semantic_labels)
       IN  IF Len(mask) # Len(loc.mesh_vertices)
           THEN pc' = "ps_raised" /\ err' = "IndexError" /\ loc' = loc
           ELSE /\ pc' = "ps_sample"
                /\ err' = err
                /\ loc' = [loc EXCEPT
                      !.mesh_vertices = MaskSelect(@, mask),
                      !.semantic_labels = MaskSelect(@, mask),
                      !.instance_labels = MaskSelect(@, mask),
                      !.instance_bboxes = MaskSelect(@, BoxMask(@))]
    /\ UNCHANGED <<scans, cur, ex, disk, runs, errors, errfile, calls>>

\* (mutant) replace=True
RandomChoiceRepl(N, size) == [1..size -> 0..(N - 1)]

\* np.random.choice(N, size, replace=False): size distinct indices, any order
RandomChoice(N, size) ==
    {c \in [1..size -> 0..(N - 1)] : \A i, j \in 1..size : c[i] = c[j] => i = j}

NeedsSubsample(N) == N > max_num_point

\* (mutant) line 145 is missing
SubsampledNoIns(l, choices) ==
    [l EXCEPT !.choices = choices,
              !.mesh_vertices = Take(@, choices),
              !.semantic_labels = Take(@, choices)]

\* lines 143-145
Subsampled(l, choices) ==
    [l EXCEPT !.choices = choices,
              !.mesh_vertices = Take(@, choices),
              !.semantic_labels = Take(@, choices),
              !.instance_labels = Take(@, choices)]

\* lines 140-145, N > max_num_point
PsSubsample ==
    /\ pc = "ps_sample"
    /\ NeedsSubsample(Len(loc.mesh_vertices))
    /\ \E choices \in RandomChoice(Len(loc.mesh_vertices), max_num_point) :
          loc' = Subsampled([loc EXCEPT !.N = Len(loc.mesh_vertices)], choices)
    /\ pc' = "ps_save_vert"
    /\ UNCHANGED <<scans, cur, ex, err, disk, runs, errors, errfile, calls>>

\* lines 140-141, N <= max_num_point
PsNoSubsample ==
    /\ pc = "ps_sample"
    /\ ~NeedsSubsample(Len(loc.mesh_vertices))
    /\ loc' = [loc EXCEPT !.N = Len(loc.mesh_vertices)]
    /\ pc' = "ps_save_vert"
    /\ UNCHANGED <<scans, cur, ex, err, disk, runs, errors, errfile, calls>>

\* line 147
PsSaveVert ==
    /\ pc = "ps_save_vert"
    /\ disk' = [disk EXCEPT ![cur].vert = File(loc.mesh_vertices)]
    /\ pc' = "ps_save_sem"
    /\ UNCHANGED <<scans, cur, ex, loc, err, runs, errors, errfile, calls>>

\* line 148
PsSaveSem ==
    /\ pc = "ps_save_sem"
    /\ disk' = [disk EXCEPT ![cur].sem_label = File(loc.semantic_labels)]
    /\ pc' = "ps_save_ins"
    /\ UNCHANGED <<scans, cur, ex, loc, err, runs, errors, errfile, calls>>

\* line 149
PsSaveIns ==
    /\ pc = "ps_save_ins"
    /\ disk' = [disk EXCEPT ![cur].ins_label = File(loc.instance_labels)]
    /\ pc' = "ps_save_bbox"
    /\ UNCHANGED <<scans, cur, ex, loc, err, runs, errors, errfile, calls>>

\* line 150
PsSaveBbox ==
    /\ pc = "ps_save_bbox"
    /\ disk' = [disk EXCEPT ![cur].bbox = File(loc.instance_bboxes)]
    /\ pc' = "ps_returned"
    /\ UNCHANGED <<scans, cur, ex, loc, err, runs, errors, errfile, calls>>

SavePoints == {"ps_save_vert", "ps_save_sem", "ps_save_ins", "ps_save_bbox"}

\* lines 147-150: an np.save call raises (the disk is full, the directory is
\* gone) and the calls after it are not made
PsSaveFails ==
    /\ pc \in SavePoints
    /\ pc' = "ps_raised"
    /\ err' = "OSError"
    /\ UNCHANGED <<scans, cur, ex, loc, disk, runs, errors, errfile, calls>>

ProcessScene ==
    \/ PsSkip \/ PsEnter \/ PsExport \/ PsFilter \/ PsSubsample
    \/ PsNoSubsample \/ PsSaveVert \/ PsSaveSem \/ PsSaveIns \/ PsSaveBbox
    \/ PsSaveFails

(***************************************************************************)
(* convert                                                                 *)
(***************************************************************************)
\* line 94: the loop takes the next scan and calls process_scene on it
CvCall ==
    /\ pc = "cv_loop"
    /\ cur < Len(scans)
    /\ cur' = cur + 1
    /\ calls' = Append(calls, cur + 1)
    /\ pc' = "ps_begin"
    /\ ex' = ExBlank
    /\ loc' = LocBlank
    /\ UNCHANGED <<scans, err, disk, runs, errors, errfile>>

\* line 96 returned
CvReturned ==
    /\ pc = "ps_returned"
    /\ pc' = "cv_loop"
    /\ UNCHANGED <<scans, cur, ex, loc, err, disk, runs, errors, errfile, calls>>

\* lines 97-98: except Exception
CvCatch ==
    /\ pc = "ps_raised"
    /\ errors' = Append(errors, [scan |-> cur, exc |-> err])
    /\ err' = NoErr
    /\ pc' = "cv_loop"
    /\ UNCHANGED <<scans, cur, ex, loc, disk, runs, errfile, calls>>

\* lines 102-106: errmsg is bound only when errors is not empty; open(..., 'w')
\* creates or truncates errors.txt before errfile.write(errmsg) is evaluated
CvWriteErrors ==
    /\ pc = "cv_loop"
    /\ cur >= Len(scans)
    /\ IF errors # <<>>
       THEN /\ errfile' = File(errors)
            /\ pc' = "cv_done"
            /\ err' = err
       ELSE /\ errfile' = File(<<>>)
            /\ pc' = "cv_raised"
            /\ err' = "UnboundLocalError"
    /\ UNCHANGED <<scans, cur, ex, loc, disk, runs, errors, calls>>

\* the script is started again on the same dataset and out_path
CvRerun ==
    /\ pc \in {"cv_done", "cv_raised"}
    /\ runs < MaxRuns
    /\ runs' = runs + 1
    /\ pc' = "cv_loop"
    /\ cur' = 0
    /\ errors' = <<>>
    /\ calls' = <<>>
    /\ err' = NoErr
    /\ ex' = ExBlank
    /\ loc' = LocBlank
    /\ UNCHANGED <<scans, disk, errfile>>

(***************************************************************************)
(* export() in its three sections, on one scene                            *)
(***************************************************************************)
XLoad ==
    /\ pc = "x_load"
    /\ ex' = ExportLoad(scans[cur])
    /\ pc' = IF ex'.err # NoErr THEN "x_raised" ELSE "x_labels"
    /\ err' = ex'.err
    /\ UNCHANGED <<scans, cur, loc, disk, runs, errors, errfile, calls>>

XLabels ==
    /\ pc = "x_labels"
    /\ ex' = ExportLabels(ex)
    /\ pc' = IF ex'.err # NoErr THEN "x_raised" ELSE "x_boxes"
    /\ err' = ex'.err
    /\ UNCHANGED <<scans, cur, loc, disk, runs, errors, errfile, calls>>

XBoxes ==
    /\ pc = "x_boxes"
    /\ ex' = ExportBoxes(ex)
    /\ pc' = IF ex'.err # NoErr THEN "x_raised" ELSE "x_returned"
    /\ err' = ex'.err
    /\ UNCHANGED <<scans, cur, loc, disk, runs, errors, errfile, calls>>

\* process_scene is called again on the same scan (the script is restarted)
PsRerun ==
    /\ pc \in {"ps_returned", "ps_raised"}
    /\ runs < MaxRuns
    /\ runs' = runs + 1
    /\ pc' = "ps_begin"
    /\ err' = NoErr
    /\ ex' = ExBlank
    /\ loc' = LocBlank
    /\ UNCHANGED <<scans, cur, disk, errors, errfile, calls>>

(***************************************************************************)
(* Specifications                                                          *)
(***************************************************************************)
NoAxisMeta == <<OtherLine>>

ExportGroupLists ==
    { <<>>,
      <<[objectId |-> 0, label |-> "chair", segments |-> <<0>>]>>,
      <<[objectId |-> 1, label |-> "wall", segments |-> <<0, 1>>],
        [objectId |-> 0, label |-> "wall", segments |-> <<1>>]>> }

SceneGroupLists ==
    { <<>>,
      <<[objectId |-> 0, label |-> "chair", segments |-> <<0>>]>>,
      <<[objectId |-> 0, label |-> "wall", segments |-> <<1>>]>>,
      <<[objectId |-> 0, label |-> "chair", segments |-> <<>>]>>,
      <<[objectId |-> 0, label |-> "chair", segments |-> <<1>>],
        [objectId |-> 1, label |-> "wall", segments |-> <<0>>]>>,
      <<[objectId |-> 0, label |-> "chair", segments |-> <<0>>],
        [objectId |-> 1, label |-> "chair", segments |-> <<1>>]>> }

ConvertGroupLists ==
    { <<>>,
      <<[objectId |-> 0, label |-> "chair", segments |-> <<1>>]>> }

ConvertSegIndices == {<<>>, <<0, 1>>, <<1, 1, 0>>}

InitCommon ==
    /\ ex = ExBlank
    /\ loc = LocBlank
    /\ err = NoErr
    /\ disk = [i \in 1..Len(scans) |-> NoFiles]
    /\ runs = 1
    /\ errors = <<>>
    /\ errfile = NoFile
    /\ calls = <<>>

InitExport ==
    \* every aggregation file within the bounds on one aligned mesh, and a few
    \* aggregation files on every mesh layout and metadata file
    /\ \/ ScansFrom(1, SeqsUpTo(SegIds, MaxVerts), SeqsUpTo(Groups, MaxGroups),
                     {0}, {1}, {<<OtherLine, AlignLine(RotShift16)>>})
       \/ ScansFrom(1, SeqsUpTo(SegIds, MaxVerts), ExportGroupLists, {0},
                    Layouts, MetaFiles)
    /\ cur = 1
    /\ pc = "x_load"
    /\ InitCommon

NextExport == XLoad \/ XLabels \/ XBoxes

SpecExport == InitExport /\ [][NextExport]_vars

Init ==
    /\ ScansFrom(1, SeqsUpTo(SegIds, MaxSceneVerts), SceneGroupLists,
                 MeshOffsets, {1}, MetaFiles)
    /\ cur = 1
    /\ pc = "ps_begin"
    /\ InitCommon

Next == ProcessScene \/ PsRerun

Spec == Init /\ [][Next]_vars

InitConvert ==
    /\ \E n \in 1..MaxScans :
          ScansFrom(n, ConvertSegIndices, ConvertGroupLists, {0}, {1},
                    {NoAxisMeta, <<OtherLine, AlignLine(RotShift16)>>})
    /\ cur = 0
    /\ pc = "cv_loop"
    /\ InitCommon

NextConvert ==
    \/ CvCall \/ ProcessScene \/ CvReturned \/ CvCatch \/ CvWriteErrors
    \/ CvRerun

SpecConvert == InitConvert /\ [][NextConvert]_vars

(***************************************************************************)
(* Properties                                                              *)
(***************************************************************************)
scene == scans[cur]
files == disk[cur]
NGroups == Len(scene.segGroups)
Group(i) == scene.segGroups[i]
Listed(i, seg) == seg \in Range(Group(i).segments)

\* the run has written its arrays: it is past the sampling step
Saving == pc \in SavePoints \/ (pc = "ps_raised" /\ err = "OSError")
Saved == pc = "ps_returned" /\ ~loc.cached

SavedSameLength ==
    Saved => /\ Len(files.vert.data) = Len(files.sem_label.data)
             /\ Len(files.sem_label.data) = Len(files.ins_label.data)

\* C1, as stated: for every scene the vertex array, the semantic-label array
\* and the instance-label array have the same length as returned by export()
\* and as saved by process_scene().
C1_SameLength ==
    /\ pc = "ps_filter" =>
          /\ Len(ex.mesh_vertices) = Len(ex.label_ids)
          /\ Len(ex.label_ids) = Len(ex.instance_ids)
    /\ SavedSameLength

\* C1, amended: the two label arrays export() returns have the length of
\* segIndices, the vertex array has the length of the mesh, so the three agree
\* when the mesh has as many vertices as segIndices has entries; the three
\* arrays process_scene() saves always have the same length.
C1_SameLengthAligned ==
    /\ pc = "ps_filter" =>
          /\ Len(ex.label_ids) = Len(scene.segIndices)
          /\ Len(ex.instance_ids) = Len(scene.segIndices)
          /\ Len(ex.mesh_vertices) = scene.nmesh
          /\ scene.nmesh = Len(scene.segIndices) =>
                Len(ex.mesh_vertices) = Len(ex.label_ids)
    /\ SavedSameLength

\* C1, witness: a run that subsampled a larger scene and saved all its files
C1_Witness ==
    /\ Saved
    /\ loc.choices # <<>>
    /\ loc.N > max_num_point
    /\ Len(files.vert.data) = max_num_point
    /\ Len(files.ins_label.data) = max_num_point

\* C2: every value of the instance-id array export() returns is 0 or lies in
\* 1..K, K the number of segGroups entries, whatever their objectId values.
C2_InstanceIdsInRange ==
    pc = "x_returned" =>
        \A k \in 1..Len(ex.instance_ids) : ex.instance_ids[k] \in 0..NGroups

\* C2, witness: export returned although a group's objectId + 1 exceeds K,
\* and some vertex carries the largest id K
C2_Witness ==
    /\ pc = "x_returned"
    /\ NGroups = 2
    /\ \E i \in 1..NGroups : Group(i).objectId + 1 > NGroups
    /\ \E k \in 1..Len(ex.instance_ids) : ex.instance_ids[k] = NGroups

\* C3: after export(), every vertex that carries an instance id lies, on each
\* axis, within [center - extent/2, center + extent/2] of bounding-box row
\* object_id - 1, whose extents are not negative.  (Stated doubled, so that
\* no half appears.)
C3_BoxContainsMembers ==
    pc = "x_returned" =>
        \A k \in 1..Len(ex.instance_ids) :
            ex.instance_ids[k] # 0 =>
                /\ ex.instance_ids[k] \in 1..Len(ex.instance_bboxes)
                /\ LET b == ex.instance_bboxes[ex.instance_ids[k]]
                       v == ex.mesh_vertices[k]
                   IN  \A a \in 1..3 :
                          /\ b[a + 3] >= 0
                          /\ 2 * b[a] - b[a + 3] <= 2 * v[a]
                          /\ 2 * v[a] <= 2 * b[a] + b[a + 3]

\* C3, witness: an object with two vertices and a box of positive extent
C3_Witness ==
    /\ pc = "x_returned"
    /\ \E id \in 1..Len(ex.instance_bboxes) :
          /\ Cardinality(Members(ex.instance_ids, id)) >= 2
          /\ ex.instance_bboxes[id][4] > 0
          /\ ex.instance_bboxes[id][5] > 0

DisjointSegments ==
    \A i, j \in 1..NGroups :
        i # j => Range(Group(i).segments) \cap Range(Group(j).segments) = {}
DistinctObjectIds ==
    \A i, j \in 1..NGroups : i # j => Group(i).objectId # Group(j).objectId

\* what C4 says of vertex k (1-based)
VertexLabelled(k) ==
    LET seg == scene.segIndices[k]
    IN  IF \E i \in 1..NGroups : Listed(i, seg)
        THEN \A i \in 1..NGroups :
                Listed(i, seg) =>
                    /\ ex.instance_ids[k] = Group(i).objectId + 1
                    /\ ex.label_ids[k] = label_map[Group(i).label]
                    /\ Group(i).objectId + 1 \in 1..Len(ex.instance_bboxes)
                    /\ ex.instance_bboxes[Group(i).objectId + 1][7] =
                           label_map[Group(i).label]
        ELSE ex.instance_ids[k] = 0 /\ ex.label_ids[k] = 0

\* C4, as stated: when every segment id is listed in at most one group,
\* export() gives each vertex of a listed segment the group's objectId + 1 and
\* mapped class id, the group's box row carries that class id, and every
\* other vertex gets 0 for both.
C4_LabelsProjected ==
    (pc = "x_returned" /\ DisjointSegments) =>
        \A k \in 1..Len(scene.segIndices) : VertexLabelled(k)

\* C4, amended: the same, when moreover the groups' objectIds are pairwise
\* distinct.
C4_LabelsProjectedDistinct ==
    (pc = "x_returned" /\ DisjointSegments /\ DistinctObjectIds) =>
        \A k \in 1..Len(scene.segIndices) : VertexLabelled(k)

\* C4, witness: two groups of the same label, each with a vertex of its own
C4_Witness ==
    /\ pc = "x_returned"
    /\ DisjointSegments /\ DistinctObjectIds
    /\ NGroups = 2
    /\ Group(1).label = Group(2).label
    /\ \A i \in 1..NGroups :
          \E k \in 1..Len(ex.instance_ids) :
              ex.instance_ids[k] = Group(i).objectId + 1

NoAxisLine == AlignLines(scene.meta) = <<>>
AbsentSegment ==
    \E i \in 1..NGroups :
        \E seg \in Range(Group(i).segments) : seg \notin Range(scene.segIndices)

\* C5: for a scene whose metadata has no axisAlignment line, or whose
\* aggregation lists a segment id absent from segIndices, process_scene() gets
\* no further than export(), ends in an error (UnboundLocalError for the
\* missing line, else KeyError) and none of the four files is written.
C5_MalformedFails ==
    (NoAxisLine \/ AbsentSegment) =>
        /\ pc \in {"ps_begin", "ps_export", "ps_raised"}
        /\ files = NoFiles
        /\ pc = "ps_raised" =>
              err = IF NoAxisLine THEN "UnboundLocalError" ELSE "KeyError"

\* C5, witness: a scene with an axisAlignment line and an absent segment has
\* raised, and so has a scene without the line
C5_Witness ==
    /\ pc = "ps_raised"
    /\ ~NoAxisLine
    /\ AbsentSegment
    /\ scene.nmesh = Len(scene.segIndices)
    /\ Len(scene.segIndices) >= 1
    /\ err = "KeyError"

\* the arrays of lines 129-131, from what export() returned
FilteredVertices == MaskSelect(ex.mesh_vertices, CareMask(ex.label_ids))
FilteredSemantic == MaskSelect(ex.label_ids, CareMask(ex.label_ids))
FilteredInstance == MaskSelect(ex.instance_ids, CareMask(ex.label_ids))

\* C6: subsampling never increases the vertex count and never selects an
\* index twice; when the count after filtering is <= max_num_point the three
\* arrays are saved unchanged.
C6_Subsampling ==
    /\ (Saving \/ Saved) =>
          /\ loc.N = Len(FilteredVertices)
          /\ Len(loc.mesh_vertices) <= loc.N
          /\ \A i, j \in 1..Len(loc.choices) :
                loc.choices[i] = loc.choices[j] => i = j
          /\ \A i \in 1..Len(loc.choices) : loc.choices[i] \in 0..(loc.N - 1)
          /\ loc.N > max_num_point =>
                /\ loc.mesh_vertices = Take(FilteredVertices, loc.choices)
                /\ loc.semantic_labels = Take(FilteredSemantic, loc.choices)
                /\ loc.instance_labels = Take(FilteredInstance, loc.choices)
    /\ (Saved /\ loc.N <= max_num_point) =>
          /\ files.vert.data = FilteredVertices
          /\ files.sem_label.data = FilteredSemantic
          /\ files.ins_label.data = FilteredInstance

\* C6, witness: a saved scene that was subsampled, the indices not in order
C6_Witness ==
    /\ Saved
    /\ loc.N > max_num_point
    /\ Len(loc.choices) = max_num_point
    /\ loc.choices[1] > loc.choices[2]

\* C7: in every state of a process_scene() run, a failed run included, the
\* four output files of the scene all exist or none exists.
C7_AllOrNothing ==
    \/ AllCached(files)
    \/ /\ ~files.vert.exists /\ ~files.sem_label.exists
       /\ ~files.ins_label.exists /\ ~files.bbox.exists

ContiguousObjectIds ==
    /\ DistinctObjectIds
    /\ \A i \in 1..NGroups : Group(i).objectId < NGroups

\* C8: on a well-formed scene (axisAlignment line, aligned mesh, every listed
\* segment present, objectIds 0..K-1) export() completes without error, and
\* every group that no vertex carries the instance id of keeps an all-zero
\* bounding-box row.
C8_EmptyInstanceRow ==
    (/\ ~NoAxisLine /\ ~AbsentSegment /\ ContiguousObjectIds
     /\ scene.nmesh = Len(scene.segIndices)) =>
        /\ pc # "x_raised"
        /\ pc = "x_returned" =>
              \A i \in 1..NGroups :
                  Members(ex.instance_ids, Group(i).objectId + 1) = {} =>
                      ex.instance_bboxes[Group(i).objectId + 1] = ZeroBox

\* C9: with distinct objectIds, the map read_aggregation() returns takes each
\* group's objectId + 1 to that group's own segments list.
C9_ObjectSegments ==
    (pc = "x_labels" /\ DistinctObjectIds) =>
        \A i \in 1..NGroups :
            ObjSegs(ex.agg, Group(i).objectId + 1) = Group(i).segments

\* C10: convert() calls process_scene once on every scan in list order and
\* then finishes by writing errors.txt, without raising.
C10_ConvertCompletes ==
    pc \in {"cv_done", "cv_raised"} =>
        /\ calls = [i \in 1..Len(scans) |-> i]
        /\ pc = "cv_done"
        /\ errfile.exists

====
